---- MODULE Spec2Model ----
(***************************************************************************)
(* TangoLint VS Code extension (src/pytangolint-vscode/extension.js):      *)
(* the diagnostic synchronization pipeline as a state machine.             *)
(*                                                                         *)
(* Text is a sequence of one-character strings, so that the line grammar,  *)
(* trim() and split() are computed character by character.                 *)
(***************************************************************************)
EXTENDS Integers, Sequences, FiniteSets, TLC

(***************************************************************************)
(* Text helpers (String.prototype.split / trim, parseInt)                  *)
(***************************************************************************)

Digits == <<"0", "1", "2", "3", "4", "5", "6", "7", "8", "9">>

IsDigit(c) == \E i \in 1..10 : Digits[i] = c

IsUpper(c) ==
    c \in {"A", "B", "C", "D", "E", "F", "G", "H", "I", "J", "K", "L", "M",
           "N", "O", "P", "Q", "R", "S", "T", "U", "V", "W", "X", "Y", "Z"}

\* Characters the regular expression's '.' does not match.
LineTerminators == {"\n", "\r"}

\* Characters String.prototype.trim() strips.
WhiteSpace == {" ", "\t", "\n", "\r"}

\* s[p], or the empty string past either end of s.
At(s, p) == IF p \in 1..Len(s) THEN s[p] ELSE ""

\* Whether the word w occurs in s starting at position p.
StartsWithAt(s, p, w) ==
    /\ p >= 1
    /\ p + Len(w) - 1 <= Len(s)
    /\ \A k \in 1..Len(w) : s[p + k - 1] = w[k]

\* The last position of the maximal run of digits of s that starts at p
\* (p - 1 when s[p] is no digit).
DigitRunEnd(s, p) ==
    CHOOSE q \in (p - 1)..Len(s) :
        /\ \A k \in p..q : IsDigit(s[k])
        /\ ~IsDigit(At(s, q + 1))

DigitVal(c) == (CHOOSE i \in 1..10 : Digits[i] = c) - 1

RECURSIVE parseInt(_)
\* parseInt(str, 10) of a non-empty string of decimal digits.
parseInt(ds) ==
    IF Len(ds) = 0 THEN 0
    ELSE parseInt(SubSeq(ds, 1, Len(ds) - 1)) * 10 + DigitVal(ds[Len(ds)])

Max(a, b) == IF a >= b THEN a ELSE b

RECURSIVE split(_, _)
\* s.split(sep) for a one-character separator: always at least one piece.
split(s, sep) ==
    IF \A k \in 1..Len(s) : s[k] # sep THEN <<s>>
    ELSE LET p == CHOOSE k \in 1..Len(s) :
                      /\ s[k] = sep
                      /\ \A j \in 1..(k - 1) : s[j] # sep
         IN  <<SubSeq(s, 1, p - 1)>> \o split(SubSeq(s, p + 1, Len(s)), sep)

\* s.trim()
trim(s) ==
    IF \A k \in 1..Len(s) : s[k] \in WhiteSpace THEN <<>>
    ELSE LET a == CHOOSE k \in 1..Len(s) :
                      /\ s[k] \notin WhiteSpace
                      /\ \A j \in 1..(k - 1) : s[j] \in WhiteSpace
             b == CHOOSE k \in 1..Len(s) :
                      /\ s[k] \notin WhiteSpace
                      /\ \A j \in (k + 1)..Len(s) : s[j] \in WhiteSpace
         IN  SubSeq(s, a, b)

(***************************************************************************)
(* Output parser                                                           *)
(***************************************************************************)

SeverityWords ==
    { <<"e", "r", "r", "o", "r">>,
      <<"w", "a", "r", "n", "i", "n", "g">>,
      <<"i", "n", "f", "o">> }

NoMatch == [matched |-> FALSE]

\* The end column of every range: the host clips it to the line length.
EndColumn == 9999

\* The rest of ISSUE_RE after group 1 = s[1..i]:
\*   :(\d+):(\d+): (error|warning|info): ([A-Z]\d+) (.+)$
\* Every quantifier after group 1 is followed by a character it cannot
\* match, so the rest has at most one match for a given i.
MatchRest(s, i) ==
    LET l1 == i + 2
        l2 == DigitRunEnd(s, l1)
        c1 == l2 + 2
        c2 == DigitRunEnd(s, c1)
        v1 == c2 + 3
    IN  IF /\ At(s, i + 1) = ":"
           /\ l2 >= l1
           /\ At(s, l2 + 1) = ":"
           /\ c2 >= c1
           /\ At(s, c2 + 1) = ":"
           /\ At(s, c2 + 2) = " "
           /\ \E w \in SeverityWords : StartsWithAt(s, v1, w)
        THEN LET w  == CHOOSE x \in SeverityWords : StartsWithAt(s, v1, x)
                 k1 == v1 + Len(w) + 2
                 k2 == DigitRunEnd(s, k1 + 1)
                 m1 == k2 + 2
             IN  IF /\ At(s, v1 + Len(w)) = ":"
                    /\ At(s, v1 + Len(w) + 1) = " "
                    /\ IsUpper(At(s, k1))
                    /\ k2 >= k1 + 1
                    /\ At(s, k2 + 1) = " "
                    /\ m1 <= Len(s)
                    /\ \A k \in m1..Len(s) : s[k] \notin LineTerminators
                 THEN [matched  |-> TRUE,
                       path     |-> SubSeq(s, 1, i),
                       lineStr  |-> SubSeq(s, l1, l2),
                       colStr   |-> SubSeq(s, c1, c2),
                       severity |-> w,
                       code     |-> SubSeq(s, k1, k2),
                       message  |-> SubSeq(s, m1, Len(s))]
                 ELSE NoMatch
        ELSE NoMatch

\* line.match(ISSUE_RE): group 1 is greedy, so of the prefixes after which
\* the rest matches the longest one is taken.
ISSUE_RE(s) ==
    LET ok == { i \in 0..Len(s) :
                  /\ \A k \in 1..i : s[k] \notin LineTerminators
                  /\ MatchRest(s, i).matched }
    IN  IF ok = {} THEN NoMatch
        ELSE MatchRest(s, CHOOSE i \in ok : \A j \in ok : j <= i)

toVSCodeSeverity(severity) ==
    CASE severity = <<"e", "r", "r", "o", "r">> -> "Error"
      [] severity = <<"w", "a", "r", "n", "i", "n", "g">> -> "Warning"
      [] OTHER -> "Information"

\* The diagnostic with the line number left 1-based.
DiagnosticOneBased(m) ==
    LET lineNum == Max(0, parseInt(m.lineStr))
        colNum  == Max(0, parseInt(m.colStr))
    IN  [range    |-> <<lineNum, colNum, lineNum, EndColumn>>,
         message  |-> m.code \o <<":", " ">> \o m.message,
         severity |-> toVSCodeSeverity(m.severity),
         source   |-> "tangolint",
         code     |-> m.code]

\* The diagnostic parseOutput builds from one matching line.
Diagnostic(m) ==
    LET lineNum == Max(0, parseInt(m.lineStr) - 1)
        colNum  == Max(0, parseInt(m.colStr))
    IN  [range    |-> <<lineNum, colNum, lineNum, EndColumn>>,
         message  |-> m.code \o <<":", " ">> \o m.message,
         severity |-> toVSCodeSeverity(m.severity),
         source   |-> "tangolint",
         code     |-> m.code]

RECURSIVE parseLines(_)
parseLines(lines) ==
    IF lines = <<>> THEN <<>>
    ELSE LET m == ISSUE_RE(Head(lines))
         IN  (IF m.matched THEN <<Diagnostic(m)>> ELSE <<>>)
                 \o parseLines(Tail(lines))

parseOutput(stdout) == parseLines(split(stdout, "\n"))

(***************************************************************************)
(* Status bar texts                                                        *)
(***************************************************************************)

CountSeverity(diagnostics, sev) ==
    Cardinality({ k \in 1..Len(diagnostics) : diagnostics[k].severity = sev })

\* statusDone with the warnings looked at before the errors.
statusDoneWarningsFirst(diagnostics) ==
    LET errors   == CountSeverity(diagnostics, "Error")
        warnings == CountSeverity(diagnostics, "Warning")
    IN  IF warnings > 0
        THEN [icon |-> "$(warning)", counts |-> <<warnings>>, message |-> <<>>]
        ELSE IF errors > 0
        THEN [icon |-> "$(error)", counts |-> <<errors, warnings>>, message |-> <<>>]
        ELSE [icon |-> "$(check)", counts |-> <<>>, message |-> <<>>]

\* What a status helper writes to the status bar item: the icon that opens
\* its text, the counts its text and tooltip show, and the message its
\* tooltip carries.
statusDone(diagnostics) ==
    LET errors   == CountSeverity(diagnostics, "Error")
        warnings == CountSeverity(diagnostics, "Warning")
    IN  IF errors > 0
        THEN [icon |-> "$(error)", counts |-> <<errors, warnings>>, message |-> <<>>]
        ELSE IF warnings > 0
        THEN [icon |-> "$(warning)", counts |-> <<warnings>>, message |-> <<>>]
        ELSE [icon |-> "$(check)", counts |-> <<>>, message |-> <<>>]

statusRunning ==
    [icon |-> "$(sync~spin)", counts |-> <<>>, message |-> <<>>]

statusError(message) ==
    [icon |-> "$(alert)", counts |-> <<>>, message |-> message]

(***************************************************************************)
(* Documents, configuration and the file system                            *)
(***************************************************************************)

\* The absent path: null, undefined and the empty string are all falsy.
NoPath == <<>>

\* The documents of the session, by URI.
Docs == {"a.py", "b.py", "Untitled-1", "notes.md"}

scheme(d) == IF d = "Untitled-1" THEN "untitled" ELSE "file"

languageId(d) == IF d = "notes.md" THEN "markdown" ELSE "python"

\* vscode.workspace.getWorkspaceFolder(document.uri): b.py lies outside the
\* workspace, untitled buffers have no folder.
getWorkspaceFolder(d) ==
    IF d \in {"a.py", "notes.md"} THEN <<"/", "ws">> ELSE NoPath

\* path.join(dir, name)
join(dir, name) == dir \o <<"/", name>>

\* context.globalStorageUri.fsPath
StorageDir == <<"/", "storage">>

ConfiguredPath == <<"/", "opt", "/", "tangolint.py">>

\* The window of the change trigger's debounce, in ms.
DebounceMs == 600

(***************************************************************************)
(* Path resolution                                                         *)
(***************************************************************************)

\* fs.existsSync(p) against the set of existing files.
existsSync(files, p) == p \in files

\* findLinterPath with the deployed copy tried before the configured path.
findLinterPathDeployedFirst(env, d) ==
    LET cfg        == env.config
        deployed   == env.deployedLinterPath
        files      == env.files
        configured == trim(cfg.linterPath)
        wsFolder   == getWorkspaceFolder(d)
    IN  IF deployed # NoPath /\ existsSync(files, deployed) THEN deployed
        ELSE IF configured # <<>> /\ existsSync(files, configured) THEN configured
        ELSE IF wsFolder # NoPath /\ existsSync(files, join(wsFolder, "tangolint.py"))
             THEN join(wsFolder, "tangolint.py")
        ELSE NoPath

findLinterPath(env, d) ==
    LET cfg        == env.config
        deployed   == env.deployedLinterPath
        files      == env.files
        configured == trim(cfg.linterPath)
        wsFolder   == getWorkspaceFolder(d)
    IN  IF configured # <<>> /\ existsSync(files, configured) THEN configured
        ELSE IF deployed # NoPath /\ existsSync(files, deployed) THEN deployed
        ELSE IF wsFolder # NoPath /\ existsSync(files, join(wsFolder, "tangolint.py"))
             THEN join(wsFolder, "tangolint.py")
        ELSE NoPath

\* The default interpreter.
Python3 == <<"p", "y", "t", "h", "o", "n", "3">>

\* The body of the try block of getPythonPath for the value pythonExt that
\* vscode.extensions.getExtension('ms-python.python') returns: whether it
\* throws, whether it returns, and the value it returns.  Each step of the
\* optional chain yields undefined on an undefined link; calling a
\* getExecutionDetails that is no function, or one that throws, throws.
tryPythonExtension(pythonExt) ==
    LET fell   == [threw |-> FALSE, returned |-> FALSE, value |-> <<>>]
        thrown == [threw |-> TRUE, returned |-> FALSE, value |-> <<>>]
    IN  IF ~pythonExt.present \/ ~pythonExt.isActive THEN fell
        ELSE IF pythonExt.exports = "undefined" THEN fell
        ELSE IF pythonExt.settings = "undefined" THEN fell
        ELSE IF pythonExt.getExecutionDetails = "undefined" THEN fell
        ELSE IF pythonExt.getExecutionDetails \in {"string", "throws"} THEN thrown
        ELSE IF pythonExt.details = "undefined" THEN fell
        ELSE IF pythonExt.execCommand.kind = "array"
                /\ Len(pythonExt.execCommand.items) > 0
        THEN [threw |-> FALSE, returned |-> TRUE,
              value |-> pythonExt.execCommand.items[1]]
        ELSE fell

\* getPythonPath without the try/catch around the query.
getPythonPathNoCatch(cfg, pythonExt) ==
    LET configured == trim(cfg.pythonPath)
        try        == tryPythonExtension(pythonExt)
    IN  IF configured # <<>> THEN [raised |-> FALSE, value |-> configured]
        ELSE IF try.threw THEN [raised |-> TRUE, value |-> <<>>]
        ELSE IF try.returned THEN [raised |-> FALSE, value |-> try.value]
        ELSE [raised |-> FALSE, value |-> Python3]

\* getPythonPath(): what it returns, or that it raised.
getPythonPath(cfg, pythonExt) ==
    LET configured == trim(cfg.pythonPath)
        try        == tryPythonExtension(pythonExt)
    IN  IF configured # <<>> THEN [raised |-> FALSE, value |-> configured]
        ELSE IF try.returned THEN [raised |-> FALSE, value |-> try.value]
        ELSE [raised |-> FALSE, value |-> Python3]

(***************************************************************************)
(* Disabled rules and the command line                                     *)
(***************************************************************************)

ALL_RULE_CODES ==
    <<"T001", "T010", "T011", "T020", "T021", "T022", "T023", "T024", "T025",
      "T030", "T031", "T032",
      "G001", "G002", "G003", "G004", "G005", "G006", "G007", "G008">>

\* cfg.get(`rules.${code}`, true): the toggle of the code, true when the
\* settings hold none.
ruleSetting(cfg, code) ==
    IF code \in DOMAIN cfg.rules THEN cfg.rules[code] ELSE TRUE

\* getDisabledRules with the test turned round.
getDisabledRulesInverted(cfg) ==
    SelectSeq(ALL_RULE_CODES, LAMBDA code : ruleSetting(cfg, code) # FALSE)

getDisabledRules(cfg) ==
    SelectSeq(ALL_RULE_CODES, LAMBDA code : ruleSetting(cfg, code) = FALSE)

RECURSIVE flatMapDisable(_)
\* codes.flatMap(code => ['--disable', code])
flatMapDisable(codes) ==
    IF codes = <<>> THEN <<>>
    ELSE <<"--disable", Head(codes)>> \o flatMapDisable(Tail(codes))

\* The arguments lintDocument passes to the interpreter.
execFileArgs(cfg, linterPath, filePath) ==
    <<linterPath, "--no-color">> \o flatMapDisable(getDisabledRules(cfg))
        \o <<filePath>>

(***************************************************************************)
(* State                                                                   *)
(***************************************************************************)

VARIABLES
    phase,                \* "inactive", "active", "failed" or "deactivated"
    deployedLinterPath,   \* set by activate(), NoPath before
    config,               \* the 'tangolint' configuration section
    files,                \* the files that exist on disk
    openDocs,             \* vscode.workspace.textDocuments
    activeEditor,         \* the active editor's document, or "none"
    debounceTimers,       \* Map: document key -> timer id
    timers,               \* the host's pending setTimeout timers
    running,              \* analyzer processes in flight, per document
    diagnosticCollection, \* [created, disposed, entries: uri -> diagnostics]
    statusBarItem,        \* [created, disposed, visible, icon, counts, message]
    errorMessages,        \* number of showErrorMessage calls
    scope,                \* the part of the environment that is explored
    lastEvent,            \* the event the last step handled (observer)
    history,              \* per document: the debounce history (observer)
    call                  \* a function applied on its own: argument and result

vars == <<phase, deployedLinterPath, config, files, openDocs, activeEditor,
          debounceTimers, timers, running, diagnosticCollection,
          statusBarItem, errorMessages, scope, lastEvent, history, call>>

\* The state of the pipeline.
pipeline == <<phase, deployedLinterPath, config, files, openDocs, activeEditor,
              debounceTimers, timers, running, diagnosticCollection,
              statusBarItem, errorMessages, scope, lastEvent, history>>

\* Bounds of the model.
MaxRunning == 2
MaxTimers  == 3
MaxBurst   == 2

\* More than the debounce window (elapsed times are not counted further).
Over == DebounceMs + 1

(***************************************************************************)
(* The host's objects                                                      *)
(***************************************************************************)

\* DiagnosticCollection.set(uri, diagnostics); on a disposed collection the
\* host throws and nothing is stored.
CollectionSet(c, d, diagnostics) ==
    IF c.disposed THEN c
    ELSE [c EXCEPT !.entries =
             [x \in (DOMAIN c.entries) \cup {d} |->
                 IF x = d THEN diagnostics ELSE c.entries[x]]]

\* DiagnosticCollection.delete(uri)
CollectionDelete(c, d) ==
    IF c.disposed THEN c
    ELSE [c EXCEPT !.entries = [x \in (DOMAIN c.entries) \ {d} |-> c.entries[x]]]

\* Whether a call on the collection throws ('illegal state - object is
\* disposed').
Throws(c) == c.disposed

\* statusBarItem.text = ...; statusBarItem.tooltip = ...
WriteStatus(item, status) ==
    [item EXCEPT !.icon = status.icon, !.counts = status.counts,
                 !.message = status.message]

\* statusBarItem.show() / hide()
Show(item) == [item EXCEPT !.visible = TRUE]
Hide(item) == [item EXCEPT !.visible = FALSE]

\* setTimeout: the id of the new timer, the smallest one not pending.
FreeTimerId(ts) ==
    CHOOSE i \in 1..(Cardinality(ts) + 1) : \A t \in ts : t.id # i

\* clearTimeout(id)
clearTimeout(ts, id) == { t \in ts : t.id # id }

(***************************************************************************)
(* The outcomes of a run of the analyzer                                   *)
(***************************************************************************)

WarningLine ==
    <<"f", ".", "p", "y", ":", "1", "0", ":", "4", ":", " ", "w", "a", "r",
      "n", "i", "n", "g", ":", " ", "T", "0", "2", "3", " ", "x">>

ErrorLine ==
    <<"f", ".", "p", "y", ":", "2", ":", "0", ":", " ", "e", "r", "r", "o",
      "r", ":", " ", "G", "0", "0", "1", " ", "y">>

Banner == <<"N", "o", " ", "i", "s", "s", "u", "e", "s">>

ImportError ==
    <<" ", "I", "m", "p", "o", "r", "t", "E", "r", "r", "o", "r", "\n", "a",
      "t", " ", "q", "\n">>

\* A report that outgrew execFile's maxBuffer, as the callback receives it:
\* the output collected up to the bound, cut in the middle of a line.
TruncatedReport ==
    SubSeq(ErrorLine \o <<"\n">> \o WarningLine \o <<"\n">>,
           1, Len(ErrorLine) + 16)

\* What a run of the analyzer can end with: execFile's err (the exit
\* status, or the maxBuffer error of a run that was killed because its
\* output outgrew the buffer), stdout and stderr.
Outcomes ==
    << [exit |-> 0, truncated |-> FALSE,
        stdout |-> Banner \o <<"\n">>, stderr |-> <<>>],
       [exit |-> 0, truncated |-> FALSE,
        stdout |-> WarningLine \o <<"\n">>, stderr |-> <<>>],
       [exit |-> 1, truncated |-> FALSE,
        stdout |-> WarningLine \o <<"\n">>, stderr |-> <<>>],
       [exit |-> 1, truncated |-> FALSE,
        stdout |-> ErrorLine \o <<"\n">> \o WarningLine \o <<"\n">>,
        stderr |-> <<" ", "\n">>],
       [exit |-> 1, truncated |-> FALSE,
        stdout |-> <<>>, stderr |-> ImportError],
       [exit |-> 0, truncated |-> FALSE,
        stdout |-> WarningLine \o <<"\n">>, stderr |-> ImportError],
       [exit |-> 1, truncated |-> TRUE,
        stdout |-> TruncatedReport, stderr |-> <<>>] >>

\* parseOutput, tabulated over the reports of Outcomes.
parseOutputTable ==
    [stdout \in { Outcomes[k].stdout : k \in DOMAIN Outcomes } |->
        parseOutput(stdout)]

(***************************************************************************)
(* Core lint runner                                                        *)
(***************************************************************************)

Eligible(d) == scheme(d) = "file" /\ languageId(d) = "python"

\* What lintDocument did for d, noted for the observer.
Note(st, d, result) ==
    [st EXCEPT !.lints = @ \cup {[doc |-> d, result |-> result]}]

\* lintDocument without the test of the URI scheme.
lintDocumentNoScheme(st, env, d) ==
    IF languageId(d) # "python"
    THEN Note(st, d, "ineligible")
    ELSE IF findLinterPath(env, d) = NoPath
    THEN [Note(st, d, "unresolved") EXCEPT
              !.coll = CollectionDelete(st.coll, d)]
    ELSE [Note(st, d, "dispatched") EXCEPT
              !.status  = Show(WriteStatus(st.status, statusRunning)),
              !.running = [st.running EXCEPT ![d] = @ + 1]]

\* lintDocument with the status set to running before the entry-point is
\* resolved.
lintDocumentEagerStatus(st, env, d) ==
    IF scheme(d) # "file" \/ languageId(d) # "python"
    THEN Note(st, d, "ineligible")
    ELSE IF findLinterPath(env, d) = NoPath
    THEN [Note(st, d, "unresolved") EXCEPT
              !.status = Show(WriteStatus(st.status, statusRunning)),
              !.coll   = CollectionDelete(st.coll, d)]
    ELSE [Note(st, d, "dispatched") EXCEPT
              !.status  = Show(WriteStatus(st.status, statusRunning)),
              !.running = [st.running EXCEPT ![d] = @ + 1]]

\* lintDocument launching nothing while a run of the document is in flight.
lintDocumentOneAtATime(st, env, d) ==
    IF scheme(d) # "file" \/ languageId(d) # "python"
    THEN Note(st, d, "ineligible")
    ELSE IF findLinterPath(env, d) = NoPath
    THEN [Note(st, d, "unresolved") EXCEPT
              !.coll = CollectionDelete(st.coll, d)]
    ELSE IF st.running[d] > 0
    THEN Note(st, d, "busy")
    ELSE [Note(st, d, "dispatched") EXCEPT
              !.status  = Show(WriteStatus(st.status, statusRunning)),
              !.running = [st.running EXCEPT ![d] = @ + 1]]

\* lintDocument(document) up to the launch of the subprocess.  st holds the
\* diagnostic collection, the status bar item and the processes in flight;
\* env the configuration, the deployed path and the file system.
lintDocument(st, env, d) ==
    IF scheme(d) # "file" \/ languageId(d) # "python"
    THEN Note(st, d, "ineligible")
    ELSE IF findLinterPath(env, d) = NoPath
    THEN [Note(st, d, "unresolved") EXCEPT
              !.coll = CollectionDelete(st.coll, d)]
    ELSE [Note(st, d, "dispatched") EXCEPT
              !.status  = Show(WriteStatus(st.status, statusRunning)),
              !.running = [st.running EXCEPT ![d] = @ + 1]]

\* The callback with the document's diagnostics cleared on a failure.
execFileCallbackClears(st, d, o) ==
    IF trim(o.stderr) # <<>>
    THEN [st EXCEPT
              !.coll   = CollectionDelete(st.coll, d),
              !.status = Show(WriteStatus(st.status,
                              statusError(split(trim(o.stderr), "\n")[1])))]
    ELSE LET diagnostics == parseOutputTable[o.stdout]
         IN  IF Throws(st.coll) THEN st
             ELSE [st EXCEPT
                      !.coll   = CollectionSet(st.coll, d, diagnostics),
                      !.status = WriteStatus(st.status, statusDone(diagnostics))]

\* The callback with a non-zero exit status taken for a failure.
execFileCallbackErrFails(st, d, o) ==
    IF o.exit # 0 \/ trim(o.stderr) # <<>>
    THEN [st EXCEPT
              !.status = Show(WriteStatus(st.status,
                              statusError(split(trim(o.stderr), "\n")[1])))]
    ELSE LET diagnostics == parseOutputTable[o.stdout]
         IN  IF Throws(st.coll) THEN st
             ELSE [st EXCEPT
                      !.coll   = CollectionSet(st.coll, d, diagnostics),
                      !.status = WriteStatus(st.status, statusDone(diagnostics))]

\* The callback returning on a failure without a word on the status bar.
execFileCallbackSilentFailure(st, d, o) ==
    IF trim(o.stderr) # <<>>
    THEN st
    ELSE LET diagnostics == parseOutputTable[o.stdout]
         IN  IF Throws(st.coll) THEN st
             ELSE [st EXCEPT
                      !.coll   = CollectionSet(st.coll, d, diagnostics),
                      !.status = WriteStatus(st.status, statusDone(diagnostics))]

\* The callback adding the diagnostics of the run to those in the store.
execFileCallbackMerges(st, d, o) ==
    IF trim(o.stderr) # <<>>
    THEN [st EXCEPT
              !.status = Show(WriteStatus(st.status,
                              statusError(split(trim(o.stderr), "\n")[1])))]
    ELSE LET old         == IF d \in DOMAIN st.coll.entries
                            THEN st.coll.entries[d] ELSE <<>>
             diagnostics == old \o parseOutputTable[o.stdout]
         IN  IF Throws(st.coll) THEN st
             ELSE [st EXCEPT
                      !.coll   = CollectionSet(st.coll, d, diagnostics),
                      !.status = WriteStatus(st.status, statusDone(diagnostics))]

\* The callback leaving the status as it is after a run without failure.
execFileCallbackNoStatusDone(st, d, o) ==
    IF trim(o.stderr) # <<>>
    THEN [st EXCEPT
              !.status = Show(WriteStatus(st.status,
                              statusError(split(trim(o.stderr), "\n")[1])))]
    ELSE LET diagnostics == parseOutputTable[o.stdout]
         IN  IF Throws(st.coll) THEN st
             ELSE [st EXCEPT
                      !.coll   = CollectionSet(st.coll, d, diagnostics)]

\* The callback of execFile: the run of d ended with outcome o.
execFileCallback(st, d, o) ==
    IF trim(o.stderr) # <<>>
    THEN [st EXCEPT
              !.status = Show(WriteStatus(st.status,
                              statusError(split(trim(o.stderr), "\n")[1])))]
    ELSE LET diagnostics == parseOutputTable[o.stdout]
         IN  IF Throws(st.coll) THEN st
             ELSE [st EXCEPT
                      !.coll   = CollectionSet(st.coll, d, diagnostics),
                      !.status = WriteStatus(st.status, statusDone(diagnostics))]

RECURSIVE lintAll(_, _, _)
\* docs.forEach(doc => lintDocument(doc))
lintAll(st, env, docs) ==
    IF docs = {} THEN st
    ELSE LET d == CHOOSE x \in docs : TRUE
         IN  lintAll(lintDocument(st, env, d), env, docs \ {d})

(***************************************************************************)
(* Event handlers                                                          *)
(***************************************************************************)

\* The change handler without the test of the lintOnChange toggle.
onDidChangeAlways(tm, cfg, d) ==
    IF languageId(d) # "python" THEN tm
    ELSE LET cleared == IF d \in DOMAIN tm.table
                        THEN clearTimeout(tm.timers, tm.table[d])
                        ELSE tm.timers
             id      == FreeTimerId(cleared)
         IN  [table  |-> [x \in (DOMAIN tm.table) \cup {d} |->
                             IF x = d THEN id ELSE tm.table[x]],
              timers |-> cleared \cup
                             {[id |-> id, doc |-> d, remaining |-> DebounceMs]}]

\* The change handler without the clearTimeout of the pending timer.
onDidChangeNoClear(tm, cfg, d) ==
    IF ~cfg.lintOnChange THEN tm
    ELSE IF languageId(d) # "python" THEN tm
    ELSE LET id == FreeTimerId(tm.timers)
         IN  [table  |-> [x \in (DOMAIN tm.table) \cup {d} |->
                             IF x = d THEN id ELSE tm.table[x]],
              timers |-> tm.timers \cup
                             {[id |-> id, doc |-> d, remaining |-> DebounceMs]}]

\* The change handler with twice the delay.
onDidChangeLongDelay(tm, cfg, d) ==
    IF ~cfg.lintOnChange THEN tm
    ELSE IF languageId(d) # "python" THEN tm
    ELSE LET cleared == IF d \in DOMAIN tm.table
                        THEN clearTimeout(tm.timers, tm.table[d])
                        ELSE tm.timers
             id      == FreeTimerId(cleared)
         IN  [table  |-> [x \in (DOMAIN tm.table) \cup {d} |->
                             IF x = d THEN id ELSE tm.table[x]],
              timers |-> cleared \cup
                             {[id |-> id, doc |-> d, remaining |-> 2 * DebounceMs]}]

\* The onDidChangeTextDocument handler on tm = [table, timers].
onDidChangeTextDocument(tm, cfg, d) ==
    IF ~cfg.lintOnChange THEN tm
    ELSE IF languageId(d) # "python" THEN tm
    ELSE LET cleared == IF d \in DOMAIN tm.table
                        THEN clearTimeout(tm.timers, tm.table[d])
                        ELSE tm.timers
             id      == FreeTimerId(cleared)
         IN  [table  |-> [x \in (DOMAIN tm.table) \cup {d} |->
                             IF x = d THEN id ELSE tm.table[x]],
              timers |-> cleared \cup
                             {[id |-> id, doc |-> d, remaining |-> DebounceMs]}]

\* The close handler without the clearTimeout of the pending timer.
onDidCloseKeepsTimer(h, d) ==
    IF Throws(h.coll) THEN h
    ELSE [coll   |-> CollectionDelete(h.coll, d),
          table  |-> [x \in (DOMAIN h.table) \ {d} |-> h.table[x]],
          timers |-> h.timers]

\* The onDidCloseTextDocument handler on h = [coll, table, timers].
onDidCloseTextDocument(h, d) ==
    IF Throws(h.coll) THEN h
    ELSE [coll   |-> CollectionDelete(h.coll, d),
          table  |-> [x \in (DOMAIN h.table) \ {d} |-> h.table[x]],
          timers |-> IF d \in DOMAIN h.table
                     THEN clearTimeout(h.timers, h.table[d])
                     ELSE h.timers]

\* The timer callback leaving its entry in the table.
timerCallbackKeepsEntry(h, env, t) ==
    [table |-> h.table,
     st    |-> lintDocument(h.st, env, t.doc)]

\* The callback of the debounce timer t on h = [table, st].
timerCallback(h, env, t) ==
    [table |-> [x \in (DOMAIN h.table) \ {t.doc} |-> h.table[x]],
     st    |-> lintDocument(h.st, env, t.doc)]

\* deactivate() calling clear() and dispose() without the optional chaining:
\* on a collection that was never created the call raises a TypeError and
\* the rest is skipped.
deactivateUnguarded(h) ==
    [raised |-> ~h.coll.created,
     table  |-> <<>>,
     timers |-> { t \in h.timers : \A k \in DOMAIN h.table : h.table[k] # t.id },
     coll   |-> IF h.coll.created
                THEN [h.coll EXCEPT !.entries = <<>>, !.disposed = TRUE]
                ELSE h.coll,
     status |-> IF h.status.created /\ h.coll.created
                THEN [h.status EXCEPT !.visible = FALSE, !.disposed = TRUE]
                ELSE h.status]

\* deactivate() without the clearTimeout loop.
deactivateLeakTimers(h) ==
    [raised |-> FALSE,
     table  |-> <<>>,
     timers |-> h.timers,
     coll   |-> IF h.coll.created
                THEN [h.coll EXCEPT !.entries = <<>>, !.disposed = TRUE]
                ELSE h.coll,
     status |-> IF h.status.created
                THEN [h.status EXCEPT !.visible = FALSE, !.disposed = TRUE]
                ELSE h.status]

\* deactivate() on h = [table, timers, coll, status]; the calls on the
\* collection and the status bar item are skipped when activate() never
\* created them (?.), so nothing is raised.
deactivate(h) ==
    [raised |-> FALSE,
     table  |-> <<>>,
     timers |-> { t \in h.timers : \A k \in DOMAIN h.table : h.table[k] # t.id },
     coll   |-> IF h.coll.created
                THEN [h.coll EXCEPT !.entries = <<>>, !.disposed = TRUE]
                ELSE h.coll,
     status |-> IF h.status.created
                THEN [h.status EXCEPT !.visible = FALSE, !.disposed = TRUE]
                ELSE h.status]

(***************************************************************************)
(* The environment: configurations and files                               *)
(***************************************************************************)

DeployedPath == join(StorageDir, "tangolint.py")

WorkspacePath == join(<<"/", "ws">>, "tangolint.py")

Configs ==
    [lintOnOpen : BOOLEAN, lintOnSave : BOOLEAN, lintOnChange : BOOLEAN,
     linterPath : {<<>>, ConfiguredPath}, pythonPath : {<<>>}, rules : {<<>>}]

DefaultConfig ==
    [lintOnOpen |-> TRUE, lintOnSave |-> TRUE, lintOnChange |-> FALSE,
     linterPath |-> <<>>, pythonPath |-> <<>>, rules |-> <<>>]

\* The analyzer files that may appear on and vanish from the disk.
LinterFiles == {ConfiguredPath, DeployedPath, WorkspacePath}

(***************************************************************************)
(* Observer: the debounce history of a document                            *)
(***************************************************************************)

NoHistory ==
    [since |-> -1, burstLen |-> 0, burstRuns |-> 0, seqLen |-> 0, seqRuns |-> 0]

\* A change event that asks for a debounced run of the document.
HistoryChange(h) ==
    LET within == h.since >= 0 /\ h.since < DebounceMs
        beyond == h.since > DebounceMs /\ h.seqLen < MaxBurst
    IN  [since     |-> 0,
         burstLen  |-> IF within THEN (IF h.burstLen < MaxBurst
                                       THEN h.burstLen + 1 ELSE h.burstLen)
                       ELSE 1,
         burstRuns |-> IF within THEN h.burstRuns ELSE 0,
         seqLen    |-> IF beyond THEN h.seqLen + 1 ELSE 1,
         seqRuns   |-> IF beyond THEN h.seqRuns ELSE 0]

\* A debounce timer of the document fired and requested a run.
HistoryRun(h) ==
    [h EXCEPT !.burstRuns = IF @ < 2 THEN @ + 1 ELSE @,
              !.seqRuns   = IF @ <= MaxBurst THEN @ + 1 ELSE @]

\* dt ms passed.
HistoryTick(h, dt) ==
    IF h.since < 0 THEN h
    ELSE [h EXCEPT !.since = IF @ + dt > DebounceMs THEN Over ELSE @ + dt]

(***************************************************************************)
(* Initial state                                                           *)
(***************************************************************************)

NoCollection == [created |-> FALSE, disposed |-> FALSE, entries |-> <<>>]

NoStatusBarItem ==
    [created |-> FALSE, disposed |-> FALSE, visible |-> FALSE,
     icon |-> "", counts |-> <<>>, message |-> <<>>]

\* The observer's note of an event: its kind and document, what lintDocument
\* did in it, the outcome of the run that ended in it, whether the document
\* had a pending timer when it was closed, whether it had diagnostics in the
\* store when it was closed or a run of it was requested or ended, and
\* whether the handler raised an error.
NoCall == [fn |-> "none", arg |-> <<>>, done |-> FALSE, result |-> <<>>]

NoEvent ==
    [kind |-> "init", doc |-> "none", lints |-> {}, outcome |-> 0,
     pending |-> FALSE, stored |-> FALSE, raised |-> FALSE]

\* The initial states within the scope sc: the documents that are opened and
\* edited, the configurations the user switches between, the analyzer files
\* that come and go, the outcomes a run can have, the steps of the clock and
\* the documents whose debounce history is observed.
InitIn(sc) ==
    /\ scope = sc
    /\ phase = "inactive"
    /\ deployedLinterPath = NoPath
    /\ config \in sc.configs
    /\ files = {}
    /\ openDocs \in SUBSET sc.docs
    /\ activeEditor \in openDocs \cup {"none"}
    /\ debounceTimers = <<>>
    /\ timers = {}
    /\ running = [d \in Docs |-> 0]
    /\ diagnosticCollection = NoCollection
    /\ statusBarItem = NoStatusBarItem
    /\ errorMessages = 0
    /\ lastEvent = NoEvent
    /\ history = [d \in Docs |-> NoHistory]

(***************************************************************************)
(* Actions                                                                 *)
(***************************************************************************)

Env == [config |-> config, deployedLinterPath |-> deployedLinterPath,
        files |-> files]

St == [coll |-> diagnosticCollection, status |-> statusBarItem,
       running |-> running, lints |-> {}]

TotalRunning(r) == r["a.py"] + r["b.py"] + r["Untitled-1"] + r["notes.md"]

\* The state after a handler, within the bounds of the model.
Apply(st) ==
    /\ TotalRunning(st.running) <= MaxRunning
    /\ diagnosticCollection' = st.coll
    /\ statusBarItem' = st.status
    /\ running' = st.running

Pending(d) == \E t \in timers : t.doc = d

Stored(d) == d \in DOMAIN diagnosticCollection.entries

Event(kind, d, lints, outcome) ==
    lastEvent' = [kind |-> kind, doc |-> d, lints |-> lints,
                  outcome |-> outcome,
                  pending |-> kind = "close" /\ Pending(d),
                  stored  |-> /\ kind \in {"close", "open", "save", "manual",
                                           "timer", "exit"}
                              /\ Stored(d),
                  raised  |-> FALSE]

\* activate(): the scripts are deployed, the collection and the status bar
\* item are created, the handlers are registered and the open documents are
\* linted.
Activate ==
    /\ phase = "inactive"
    /\ LET env == [config |-> config, deployedLinterPath |-> DeployedPath,
                   files |-> files \cup {DeployedPath,
                                         join(StorageDir, "tangolint_rules.py")}]
           st0 == [coll    |-> [created |-> TRUE, disposed |-> FALSE,
                                entries |-> <<>>],
                   status  |-> [NoStatusBarItem EXCEPT !.created = TRUE],
                   running |-> running,
                   lints   |-> {}]
           st1 == IF config.lintOnOpen THEN lintAll(st0, env, openDocs) ELSE st0
           st2 == IF activeEditor # "none" /\ languageId(activeEditor) = "python"
                  THEN [st1 EXCEPT !.status = Show(@)] ELSE st1
       IN  /\ Apply(st2)
           /\ deployedLinterPath' = env.deployedLinterPath
           /\ files' = env.files
           /\ Event("activate", "none", st2.lints, 0)
    /\ phase' = "active"
    /\ UNCHANGED <<call, scope, config, openDocs, activeEditor, debounceTimers, timers,
                   errorMessages, history>>

\* activate() when deployScripts() rejects: one error message, nothing else
\* (the first script may have been copied before the second copy failed).
ActivateFail ==
    /\ phase = "inactive"
    /\ phase' = "failed"
    /\ errorMessages' = errorMessages + 1
    /\ files' \in {files, files \cup {DeployedPath}}
    /\ Event("activateFail", "none", {}, 0)
    /\ UNCHANGED <<call, scope, deployedLinterPath, config, openDocs, activeEditor,
                   debounceTimers, timers, running, diagnosticCollection,
                   statusBarItem, history>>

Deactivate ==
    /\ phase \in {"active", "failed"}
    /\ phase' = "deactivated"
    /\ LET h == deactivate([table |-> debounceTimers, timers |-> timers,
                            coll |-> diagnosticCollection,
                            status |-> statusBarItem])
       IN  /\ debounceTimers' = h.table
           /\ timers' = h.timers
           /\ diagnosticCollection' = h.coll
           /\ statusBarItem' = h.status
           /\ lastEvent' = [NoEvent EXCEPT !.kind = "deactivate",
                                           !.raised = h.raised]
    /\ history' = [d \in Docs |-> NoHistory]
    /\ UNCHANGED <<call, scope, deployedLinterPath, config, files, openDocs, activeEditor,
                   running, errorMessages>>

\* onDidOpenTextDocument
OpenDocument(d) ==
    /\ phase = "active"
    /\ d \notin openDocs
    /\ openDocs' = openDocs \cup {d}
    /\ LET st == IF config.lintOnOpen THEN lintDocument(St, Env, d) ELSE St
       IN  /\ Apply(st)
           /\ Event("open", d, st.lints, 0)
    /\ UNCHANGED <<call, scope, phase, deployedLinterPath, config, files, activeEditor,
                   debounceTimers, timers, errorMessages, history>>

\* onDidSaveTextDocument
SaveDocument(d) ==
    /\ phase = "active"
    /\ d \in openDocs
    /\ LET st == IF config.lintOnSave THEN lintDocument(St, Env, d) ELSE St
       IN  /\ Apply(st)
           /\ Event("save", d, st.lints, 0)
    /\ UNCHANGED <<call, scope, phase, deployedLinterPath, config, files, openDocs,
                   activeEditor, debounceTimers, timers, errorMessages, history>>

\* onDidChangeTextDocument
ChangeDocument(d) ==
    /\ phase = "active"
    /\ d \in openDocs
    /\ LET tm == onDidChangeTextDocument(
                     [table |-> debounceTimers, timers |-> timers], config, d)
       IN  /\ Cardinality(tm.timers) <= MaxTimers
           /\ debounceTimers' = tm.table
           /\ timers' = tm.timers
    /\ history' = IF config.lintOnChange /\ Eligible(d) /\ d \in scope.observed
                  THEN [history EXCEPT ![d] = HistoryChange(@)]
                  ELSE history
    /\ Event("change", d, {}, 0)
    /\ UNCHANGED <<call, scope, phase, deployedLinterPath, config, files, openDocs,
                   activeEditor, running, diagnosticCollection, statusBarItem,
                   errorMessages>>

\* The close event with the runs of the document killed.
CloseDocumentKills(d) ==
    /\ phase = "active"
    /\ d \in openDocs
    /\ d # activeEditor
    /\ openDocs' = openDocs \ {d}
    /\ LET h == onDidCloseTextDocument(
                    [coll |-> diagnosticCollection, table |-> debounceTimers,
                     timers |-> timers], d)
       IN  /\ diagnosticCollection' = h.coll
           /\ debounceTimers' = h.table
           /\ timers' = h.timers
    /\ running' = [running EXCEPT ![d] = 0]
    /\ history' = [history EXCEPT ![d] = NoHistory]
    /\ Event("close", d, {}, 0)
    /\ UNCHANGED <<call, scope, phase, deployedLinterPath, config, files,
                   activeEditor, statusBarItem, errorMessages>>

\* onDidCloseTextDocument (the host closes a document after its editor has
\* stopped being the active one).
CloseDocument(d) ==
    /\ phase = "active"
    /\ d \in openDocs
    /\ d # activeEditor
    /\ openDocs' = openDocs \ {d}
    /\ LET h == onDidCloseTextDocument(
                    [coll |-> diagnosticCollection, table |-> debounceTimers,
                     timers |-> timers], d)
       IN  /\ diagnosticCollection' = h.coll
           /\ debounceTimers' = h.table
           /\ timers' = h.timers
    /\ history' = [history EXCEPT ![d] = NoHistory]
    /\ Event("close", d, {}, 0)
    /\ UNCHANGED <<call, scope, phase, deployedLinterPath, config, files, activeEditor,
                   running, statusBarItem, errorMessages>>

\* onDidChangeActiveTextEditor
ChangeActiveEditor(e) ==
    /\ phase = "active"
    /\ e \in openDocs \cup {"none"}
    /\ e # activeEditor
    /\ activeEditor' = e
    /\ statusBarItem' = IF e # "none" /\ languageId(e) = "python"
                        THEN Show(statusBarItem) ELSE Hide(statusBarItem)
    /\ Event("editor", e, {}, 0)
    /\ UNCHANGED <<call, scope, phase, deployedLinterPath, config, files, openDocs,
                   debounceTimers, timers, running, diagnosticCollection,
                   errorMessages, history>>

\* The command tangolint.lintFile
LintFile ==
    /\ phase = "active"
    /\ activeEditor # "none"
    /\ LET st == lintDocument(St, Env, activeEditor)
       IN  /\ Apply(st)
           /\ Event("manual", activeEditor, st.lints, 0)
    /\ UNCHANGED <<call, scope, phase, deployedLinterPath, config, files, openDocs,
                   activeEditor, debounceTimers, timers, errorMessages, history>>

\* A debounce timer expires and its callback runs.
TimerFire(t) ==
    /\ t \in timers
    /\ t.remaining = 0
    /\ timers' = timers \ {t}
    /\ LET h == timerCallback([table |-> debounceTimers, st |-> St], Env, t)
       IN  /\ Apply(h.st)
           /\ debounceTimers' = h.table
           /\ Event("timer", t.doc, h.st.lints, 0)
           /\ history' =
                  IF /\ t.doc \in scope.observed
                     /\ \E l \in h.st.lints : l.result # "ineligible"
                  THEN [history EXCEPT ![t.doc] = HistoryRun(@)]
                  ELSE history
    /\ UNCHANGED <<call, scope, phase, deployedLinterPath, config, files, openDocs,
                   activeEditor, errorMessages>>

\* Time passes; a timer fires when it expires, before time passes further.
Tick(dt) ==
    /\ \A t \in timers : t.remaining >= dt
    /\ \/ timers # {}
       \/ \E d \in Docs : history[d].since >= 0 /\ history[d].since <= DebounceMs
    /\ timers' = { [t EXCEPT !.remaining = @ - dt] : t \in timers }
    /\ history' = [d \in Docs |-> HistoryTick(history[d], dt)]
    /\ Event("tick", "none", {}, 0)
    /\ UNCHANGED <<call, scope, phase, deployedLinterPath, config, files, openDocs,
                   activeEditor, debounceTimers, running, diagnosticCollection,
                   statusBarItem, errorMessages>>

\* An analyzer process of d ends with the k-th outcome.
ProcessExit(d, k) ==
    /\ running[d] > 0
    /\ LET st == execFileCallback(
                     [St EXCEPT !.running = [running EXCEPT ![d] = @ - 1]],
                     d, Outcomes[k])
       IN  Apply(st)
    /\ Event("exit", d, {}, k)
    /\ UNCHANGED <<call, scope, phase, deployedLinterPath, config, files, openDocs,
                   activeEditor, debounceTimers, timers, errorMessages, history>>

\* The user edits the settings.
ConfigChange(c) ==
    /\ phase \in {"inactive", "active"}
    /\ c # config
    /\ config' = c
    /\ Event("config", "none", {}, 0)
    /\ UNCHANGED <<call, scope, phase, deployedLinterPath, files, openDocs, activeEditor,
                   debounceTimers, timers, running, diagnosticCollection,
                   statusBarItem, errorMessages, history>>

\* An analyzer file appears on or vanishes from the disk.
FileChange(f) ==
    /\ phase = "active"
    /\ files' = IF f \in files THEN files \ {f} ELSE files \cup {f}
    /\ Event("file", "none", {}, 0)
    /\ UNCHANGED <<call, scope, phase, deployedLinterPath, config, openDocs, activeEditor,
                   debounceTimers, timers, running, diagnosticCollection,
                   statusBarItem, errorMessages, history>>

Next ==
    \/ Activate
    \/ ActivateFail
    \/ Deactivate
    \/ \E d \in scope.docs : OpenDocument(d)
    \/ \E d \in scope.docs : SaveDocument(d)
    \/ \E d \in scope.docs : ChangeDocument(d)
    \/ \E d \in scope.docs : CloseDocument(d)
    \/ \E e \in scope.docs \cup {"none"} : ChangeActiveEditor(e)
    \/ LintFile
    \/ \E t \in timers : TimerFire(t)
    \/ \E dt \in scope.steps : Tick(dt)
    \/ \E d \in scope.docs : \E k \in scope.outcomes : ProcessExit(d, k)
    \/ \E c \in scope.configs : ConfigChange(c)
    \/ \E f \in scope.files : FileChange(f)

\* The whole pipeline, two eligible documents, coarse time.
MainScope ==
    [docs     |-> {"a.py", "b.py"},
     configs  |-> {DefaultConfig, [DefaultConfig EXCEPT !.lintOnChange = TRUE]},
     files    |-> {DeployedPath},
     outcomes |-> {3, 4, 6},
     steps    |-> {DebounceMs},
     observed |-> {}]

Init == InitIn(MainScope) /\ call = NoCall

Spec == Init /\ [][Next]_vars

\* The eligibility filter: an eligible document, an untitled Python buffer
\* and a saved file of another language.
FilterScope ==
    [docs     |-> {"a.py", "Untitled-1", "notes.md"},
     configs  |-> {DefaultConfig, [DefaultConfig EXCEPT !.lintOnChange = TRUE]},
     files    |-> {DeployedPath},
     outcomes |-> {3},
     steps    |-> {DebounceMs},
     observed |-> {}]

InitFilter == InitIn(FilterScope) /\ call = NoCall

SpecFilter == InitFilter /\ [][Next]_vars

\* The debounce of the change trigger: a finer clock, and the history of
\* the change events and timer-requested runs of the observed documents.
DebounceScope ==
    [docs     |-> {"a.py", "Untitled-1"},
     configs  |-> {DefaultConfig, [DefaultConfig EXCEPT !.lintOnChange = TRUE]},
     files    |-> {DeployedPath},
     outcomes |-> {3},
     steps    |-> {200},
     observed |-> {"a.py"}]

InitDebounce == InitIn(DebounceScope) /\ call = NoCall

SpecDebounce == InitDebounce /\ [][Next]_vars

\* The status bar: one eligible document, runs that end clean, with
\* warnings, with errors, with a failure and with a truncated report.
StatusScope ==
    [docs     |-> {"a.py"},
     configs  |-> {DefaultConfig, [DefaultConfig EXCEPT !.lintOnChange = TRUE]},
     files    |-> {DeployedPath},
     outcomes |-> {1, 3, 4, 5, 7},
     steps    |-> {DebounceMs},
     observed |-> {}]

InitStatus == InitIn(StatusScope) /\ call = NoCall

SpecStatus == InitStatus /\ [][Next]_vars

\* The trigger toggles: one eligible document and every combination of
\* lintOnOpen, lintOnSave and lintOnChange.
ToggleScope ==
    [docs     |-> {"a.py"},
     configs  |-> { c \in Configs : c.linterPath = <<>> },
     files    |-> {DeployedPath},
     outcomes |-> {3},
     steps    |-> {DebounceMs},
     observed |-> {}]

InitToggle == InitIn(ToggleScope) /\ call = NoCall

SpecToggle == InitToggle /\ [][Next]_vars

(***************************************************************************)
(* Properties                                                              *)
(***************************************************************************)

Entries == diagnosticCollection.entries

Blank(text) == \A i \in 1..Len(text) : text[i] \in WhiteSpace

\* The diagnostics the reports of Outcomes stand for.
WarningDiagnostic ==
    [range    |-> <<9, 4, 9, 9999>>,
     message  |-> <<"T", "0", "2", "3", ":", " ", "x">>,
     severity |-> "Warning",
     source   |-> "tangolint",
     code     |-> <<"T", "0", "2", "3">>]

ErrorDiagnostic ==
    [range    |-> <<1, 0, 1, 9999>>,
     message  |-> <<"G", "0", "0", "1", ":", " ", "y">>,
     severity |-> "Error",
     source   |-> "tangolint",
     code     |-> <<"G", "0", "0", "1">>]

ExpectedDiagnostics(k) ==
    CASE k \in {2, 3, 6} -> <<WarningDiagnostic>>
      [] k = 4 -> <<ErrorDiagnostic, WarningDiagnostic>>
      [] k = 7 -> <<ErrorDiagnostic>>
      [] OTHER -> <<>>

ExpectedIcon(k) ==
    CASE k \in {2, 3} -> "$(warning)"
      [] k \in {4, 7} -> "$(error)"
      [] k = 1 -> "$(check)"
      [] OTHER -> "$(alert)"

ExpectedCounts(k) ==
    CASE k \in {2, 3} -> <<1>>
      [] k = 4 -> <<1, 1>>
      [] k = 7 -> <<1, 0>>
      [] OTHER -> <<>>

\* The first line of the trimmed stderr of outcomes 5 and 6.
ExpectedMessage == <<"I", "m", "p", "o", "r", "t", "E", "r", "r", "o", "r">>

SameEntry(d) ==
    /\ (d \in DOMAIN Entries') = (d \in DOMAIN Entries)
    /\ d \in DOMAIN Entries => Entries'[d] = Entries[d]

\* C4: a document that has been closed and not reopened has no diagnostic
\* set in the store, in every reachable state.
ClosedDocumentHasNoDiagnostics ==
    \A d \in Docs : d \notin openDocs => d \notin DOMAIN Entries

\* C5: after deactivate the timer table is empty, no timer is pending in the
\* host (so none fires), and the store holds no diagnostics, also after the
\* runs that were in flight at deactivation have completed.
DeactivateClearsEverything ==
    phase = "deactivated" =>
        /\ debounceTimers = <<>>
        /\ timers = {}
        /\ Entries = <<>>
        /\ lastEvent.kind # "timer"

\* A run in flight at deactivation has completed afterwards with a report
\* that holds diagnostics.
DeactivateWitness ==
    /\ phase = "deactivated"
    /\ lastEvent.kind = "exit"
    /\ lastEvent.outcome = 3

\* C8: when a run is requested for an eligible document and no entry-point
\* resolves, the document's diagnostics are removed, no process is launched,
\* the status bar item is left as it was and the other documents keep their
\* diagnostics.
UnresolvedToolClearsSilently ==
    [][\A d \in Docs :
          (/\ lastEvent'.kind \in {"open", "save", "manual", "timer"}
           /\ lastEvent'.doc = d
           /\ lastEvent'.lints # {}
           /\ Eligible(d)
           /\ findLinterPath(Env, d) = NoPath)
          => (/\ d \notin DOMAIN Entries'
              /\ running' = running
              /\ statusBarItem' = statusBarItem
              /\ \A x \in Docs \ {d} : SameEntry(x))]_vars

\* A run was requested for a document that had diagnostics, with no
\* entry-point, while the other document has diagnostics in the store.
UnresolvedToolWitness ==
    /\ lastEvent.kind \in {"open", "save", "manual", "timer"}
    /\ \E l \in lastEvent.lints : l.result = "unresolved"
    /\ findLinterPath(Env, lastEvent.doc) = NoPath
    /\ lastEvent.stored
    /\ \E x \in DOMAIN Entries : x # lastEvent.doc /\ Entries[x] # <<>>

\* C9: when a run completes with non-blank text on stderr, the status bar
\* item shows the alert with the first line of the trimmed text, and the
\* store is left as it was for every document.
StderrFailureKeepsDiagnostics ==
    [][(/\ lastEvent'.kind = "exit"
        /\ ~Blank(Outcomes[lastEvent'.outcome].stderr))
       => (/\ statusBarItem'.icon = "$(alert)"
           /\ statusBarItem'.message = ExpectedMessage
           /\ statusBarItem'.visible
           /\ diagnosticCollection' = diagnosticCollection)]_vars

\* A run of a document that has diagnostics failed although its stdout held
\* a report.
StderrFailureWitness ==
    /\ lastEvent.kind = "exit"
    /\ lastEvent.outcome = 6
    /\ statusBarItem.icon = "$(alert)"
    /\ lastEvent.doc \in DOMAIN Entries
    /\ Entries[lastEvent.doc] = <<ErrorDiagnostic, WarningDiagnostic>>

\* C10: while the pipeline is active, a run that ends with a non-zero exit
\* status and blank stderr replaces the document's diagnostics by the parse
\* of its stdout and sets the status by their counts, as a run with exit
\* status 0 and the same stdout does.
NonZeroExitIsNoFailure ==
    (/\ lastEvent.kind = "exit"
     /\ Outcomes[lastEvent.outcome].exit # 0
     /\ Blank(Outcomes[lastEvent.outcome].stderr)
     /\ ~diagnosticCollection.disposed)
    => (/\ lastEvent.doc \in DOMAIN Entries
        /\ Entries[lastEvent.doc] = ExpectedDiagnostics(lastEvent.outcome)
        /\ statusBarItem.icon = ExpectedIcon(lastEvent.outcome)
        /\ statusBarItem.counts = ExpectedCounts(lastEvent.outcome))

\* A run ended with exit status 1, whitespace on stderr and a report of one
\* error and one warning.
NonZeroExitWitness ==
    /\ lastEvent.kind = "exit"
    /\ lastEvent.outcome = 4
    /\ ~diagnosticCollection.disposed
    /\ statusBarItem.icon = "$(error)"

\* The text of the status bar item.
StatusText == <<statusBarItem.icon, statusBarItem.counts, statusBarItem.message>>

\* C6: for a document that is not a file or not Python, no trigger (open,
\* save, change and its debounced run, manual, startup) launches a process,
\* changes the status or changes the diagnostics of any document.
IneligibleDocumentsAreIgnored ==
    [][/\ \A d \in Docs :
            (/\ lastEvent'.kind \in {"open", "save", "change", "manual", "timer"}
             /\ lastEvent'.doc = d
             /\ ~Eligible(d))
            => (/\ running' = running
                /\ StatusText' = StatusText
                /\ statusBarItem'.visible = statusBarItem.visible
                /\ diagnosticCollection' = diagnosticCollection)
       /\ lastEvent'.kind = "activate" =>
            /\ \A d \in Docs : ~Eligible(d) =>
                   running'[d] = 0 /\ d \notin DOMAIN Entries'
            /\ (\A d \in openDocs : ~Eligible(d)) =>
                   /\ TotalRunning(running') = 0
                   /\ statusBarItem'.icon = ""]_vars

\* The debounced run of an untitled Python buffer was requested while
\* another document has diagnostics in the store.
IneligibleWitness ==
    /\ lastEvent.kind = "timer"
    /\ lastEvent.doc = "Untitled-1"
    /\ \E x \in DOMAIN Entries : Entries[x] # <<>>

\* C7: a change event for a document that is not a file or not Python
\* schedules no debounce timer and leaves the timer table as it was.
IneligibleChangeSchedulesNothing ==
    [][\A d \in Docs :
          (/\ lastEvent'.kind = "change"
           /\ lastEvent'.doc = d
           /\ ~Eligible(d))
          => (debounceTimers' = debounceTimers /\ timers' = timers)]_vars

TimersOf(d) == { t \in timers : t.doc = d }

\* C1: change events of an eligible document that each arrive less than
\* DebounceMs after the one before (lintOnChange enabled, the document not
\* closed) lead to exactly one run request, made by the timer DebounceMs
\* after the last of them and not earlier; the request launches a process
\* when the entry-point resolves.
DebounceOneRunPerBurst ==
    \A d \in scope.observed :
        LET h == history[d]
        IN  /\ h.burstLen >= 1 =>
                /\ h.burstRuns <= 1
                /\ h.since < DebounceMs =>
                       /\ h.burstRuns = 0
                       /\ \E t \in timers :
                              /\ TimersOf(d) = {t}
                              /\ t.remaining = DebounceMs - h.since
                /\ h.since = DebounceMs =>
                       \/ h.burstRuns = 1 /\ TimersOf(d) = {}
                       \/ /\ h.burstRuns = 0
                          /\ \E t \in timers :
                                 TimersOf(d) = {t} /\ t.remaining = 0
                /\ h.since > DebounceMs =>
                       h.burstRuns = 1 /\ TimersOf(d) = {}
            /\ (lastEvent.kind = "timer" /\ lastEvent.doc = d) =>
                /\ h.since = DebounceMs
                /\ h.burstRuns = 1
                /\ (findLinterPath(Env, d) # NoPath) =>
                       /\ lastEvent.lints = {[doc |-> d, result |-> "dispatched"]}
                       /\ running[d] >= 1
                /\ (findLinterPath(Env, d) = NoPath) =>
                       lastEvent.lints = {[doc |-> d, result |-> "unresolved"]}

\* A burst of MaxBurst change events has led to its one run.
DebounceBurstWitness ==
    /\ lastEvent.kind = "timer"
    /\ lastEvent.doc \in scope.observed
    /\ history[lastEvent.doc].burstLen = MaxBurst
    /\ history[lastEvent.doc].burstRuns = 1

\* C2: change events of an eligible document that each arrive more than
\* DebounceMs after the one before (lintOnChange enabled) lead to one run
\* request each: as many requests as events, less the one whose timer is
\* still pending.
DebounceOneRunPerSpacedChange ==
    \A d \in scope.observed :
        LET h == history[d]
        IN  h.seqLen >= 1 =>
                /\ Cardinality(TimersOf(d)) <= 1
                /\ h.seqRuns = h.seqLen - Cardinality(TimersOf(d))

\* MaxBurst spaced change events have led to MaxBurst runs.
DebounceSpacedWitness ==
    \E d \in scope.observed :
        /\ history[d].seqLen = MaxBurst
        /\ history[d].seqRuns = MaxBurst

\* C3: closing a document removes its pending debounce timer from the host
\* (so it cannot fire), its entry in the timer table and its diagnostics,
\* all in the step of the close event; timers fire for open documents only.
CloseCancelsPendingRun ==
    /\ lastEvent.kind = "close" =>
           /\ lastEvent.doc \notin DOMAIN debounceTimers
           /\ TimersOf(lastEvent.doc) = {}
           /\ lastEvent.doc \notin DOMAIN Entries
    /\ lastEvent.kind = "timer" => lastEvent.doc \in openDocs

\* A document that had diagnostics was closed while its debounce timer was
\* pending.
CloseWitness ==
    /\ lastEvent.kind = "close"
    /\ lastEvent.pending
    /\ lastEvent.stored

\* C11: when the analyzer's output outgrew the output buffer, the run counts
\* as a failure: the truncated report is not stored for any document and the
\* status is not set from the diagnostics parsed from it.
TruncationIsAnError ==
    [][(/\ lastEvent'.kind = "exit"
        /\ Outcomes[lastEvent'.outcome].truncated)
       => (/\ diagnosticCollection' = diagnosticCollection
           /\ \/ StatusText' = StatusText
              \/ statusBarItem'.icon = "$(alert)")]_vars

\* An event in which lintDocument launched a process.
Dispatched(e) == \E l \in e.lints : l.result = "dispatched"

\* The presentation state a diagnostic set stands for.
StateOf(diagnostics) ==
    IF \E k \in 1..Len(diagnostics) : diagnostics[k].severity = "Error"
    THEN "$(error)"
    ELSE IF \E k \in 1..Len(diagnostics) : diagnostics[k].severity = "Warning"
    THEN "$(warning)"
    ELSE "$(check)"

\* C12: the status follows the state machine: an event that launches a run
\* leaves the status running; a run that completes with blank stderr (while
\* the collection is live) sets it to the one of clean, warnings-only and
\* errors-present that the diagnostics parsed from its report stand for; a run
\* that completes with text on stderr sets it to the error state; close,
\* change, the passing of time, a run request that launches nothing, and
\* changes of settings, files and active editor leave the status text as it
\* was.
StatusStateMachine ==
    [][/\ Dispatched(lastEvent') => statusBarItem'.icon = "$(sync~spin)"
       /\ lastEvent'.kind = "exit" =>
             LET o == Outcomes[lastEvent'.outcome]
             IN  /\ (Blank(o.stderr) /\ ~diagnosticCollection.disposed) =>
                        /\ Entries'[lastEvent'.doc] =
                               ExpectedDiagnostics(lastEvent'.outcome)
                        /\ statusBarItem'.icon = StateOf(Entries'[lastEvent'.doc])
                        /\ statusBarItem'.message = <<>>
                 /\ ~Blank(o.stderr) => statusBarItem'.icon = "$(alert)"
       /\ (/\ lastEvent'.kind \notin {"exit", "activate", "deactivate"}
           /\ ~Dispatched(lastEvent'))
          => StatusText' = StatusText]_vars

\* Every state of the machine has been entered: a run completed clean while
\* the store held the diagnostics of an earlier run with errors, after a
\* failure, and a further run is in flight.
StatusWitness ==
    /\ lastEvent.kind = "exit"
    /\ lastEvent.outcome = 1
    /\ statusBarItem.icon = "$(check)"
    /\ running[lastEvent.doc] > 0
    /\ ~diagnosticCollection.disposed

\* C13: in every state of the active pipeline in which a run is in flight,
\* the status is running.
InFlightMeansRunning ==
    (phase = "active" /\ TotalRunning(running) > 0)
    => statusBarItem.icon = "$(sync~spin)"

\* C14: the completed result the status shows stems from a run of the active
\* document: the completion of a run of a document that is not the active one
\* leaves the status text as it was.
StatusIsOfActiveDocument ==
    [][(/\ phase = "active"
        /\ activeEditor # "none"
        /\ lastEvent'.kind = "exit"
        /\ lastEvent'.doc # activeEditor)
       => StatusText' = StatusText]_vars

(***************************************************************************)
(* The functions of the pipeline applied on their own                      *)
(***************************************************************************)

\* The pipeline is not loaded while a function is applied on its own.
NoScope ==
    [docs |-> {}, configs |-> {DefaultConfig}, files |-> {}, outcomes |-> {},
     steps |-> {}, observed |-> {}]

\* The sequences over S of length at most n.
SeqsUpTo(S, n) == UNION { [1..k -> S] : k \in 0..n }

\* The calls of fn on the arguments args, not yet made.
Calls(fn, args) ==
    { [fn |-> fn, arg |-> a, done |-> FALSE, result |-> <<>>] : a \in args }

\* The call returns.
Return(result) ==
    /\ ~call.done
    /\ call' = [call EXCEPT !.done = TRUE, !.result = result]
    /\ UNCHANGED pipeline

InfoDiagnostic ==
    [range    |-> <<0, 0, 0, 9999>>,
     message  |-> <<"T", "0", "0", "1", ":", " ", "z">>,
     severity |-> "Information",
     source   |-> "tangolint",
     code     |-> <<"T", "0", "0", "1">>]

\* The longest diagnostic set statusDone is applied to.
MaxDiagnostics == 5

InitAggregator ==
    /\ InitIn(NoScope)
    /\ call \in Calls("statusDone",
                      SeqsUpTo({ErrorDiagnostic, WarningDiagnostic,
                                InfoDiagnostic}, MaxDiagnostics))

StatusDoneCall ==
    /\ call.fn = "statusDone"
    /\ Return(statusDone(call.arg))

SpecAggregator == InitAggregator /\ [][StatusDoneCall]_vars

RECURSIVE Count(_, _)
\* The number of the diagnostics of severity sev.
Count(diagnostics, sev) ==
    IF diagnostics = <<>> THEN 0
    ELSE (IF Head(diagnostics).severity = sev THEN 1 ELSE 0)
             + Count(Tail(diagnostics), sev)

WithoutInfo(diagnostics) ==
    SelectSeq(diagnostics, LAMBDA x : x.severity # "Information")

\* C15: for every diagnostic set, with e its diagnostics of severity Error
\* and w those of severity Warning, statusDone yields errors-present with the
\* counts e and w iff e > 0, warnings-only with the count w iff e = 0 and
\* w > 0, and clean iff both are 0; the set without its Information
\* diagnostics yields the same.
StatusDoneCounts ==
    (call.fn = "statusDone" /\ call.done) =>
        LET e == Count(call.arg, "Error")
            w == Count(call.arg, "Warning")
            r == call.result
        IN  /\ r.icon \in {"$(error)", "$(warning)", "$(check)"}
            /\ r.icon = "$(error)" <=> e > 0
            /\ r.icon = "$(error)" => r.counts = <<e, w>>
            /\ r.icon = "$(warning)" <=> (e = 0 /\ w > 0)
            /\ r.icon = "$(warning)" => r.counts = <<w>>
            /\ r.icon = "$(check)" <=> (e = 0 /\ w = 0)
            /\ r.icon = "$(check)" => r.counts = <<>>
            /\ r = statusDone(WithoutInfo(call.arg))

\* A set of 2 errors and 3 warnings yielded errors-present with both counts.
StatusDoneWitness ==
    /\ call.fn = "statusDone"
    /\ call.done
    /\ Count(call.arg, "Error") = 2
    /\ Count(call.arg, "Warning") = 3
    /\ call.result.icon = "$(error)"
    /\ call.result.counts = <<2, 3>>

\* The values of the tangolint.linterPath setting: unset, blank, the path
\* and the path between blanks.
LinterPathSettings ==
    {<<>>, <<" ">>, ConfiguredPath, <<" ">> \o ConfiguredPath \o <<" ">>}

\* The values of the tangolint.pythonPath setting.
PythonPathSettings == {<<>>, <<" ">>, <<" ", "p", "y", " ">>}

Conda == <<"c", "o", "n", "d", "a">>

\* What getExtension('ms-python.python') can return: nothing, or an
\* extension, active or not, whose API has any of the shapes below.
PythonExtensions ==
    [present : BOOLEAN, isActive : BOOLEAN,
     exports : {"undefined", "object"},
     settings : {"undefined", "object"},
     getExecutionDetails : {"undefined", "function", "string", "throws"},
     details : {"undefined", "object"},
     execCommand : {[kind |-> "undefined", items |-> <<>>],
                    [kind |-> "string", items |-> <<Conda>>],
                    [kind |-> "array", items |-> <<>>],
                    [kind |-> "array", items |-> <<Conda>>],
                    [kind |-> "array", items |-> <<Conda, <<"r", "u", "n">>>>]}]

InitResolver ==
    /\ InitIn(NoScope)
    /\ call \in
          Calls("findLinterPath",
                [env : [config : {[DefaultConfig EXCEPT !.linterPath = x] :
                                      x \in LinterPathSettings},
                        deployedLinterPath : {NoPath, DeployedPath},
                        files : SUBSET LinterFiles],
                 doc : Docs])
          \cup
          Calls("getPythonPath",
                [cfg : {[DefaultConfig EXCEPT !.pythonPath = x] :
                            x \in PythonPathSettings},
                 pythonExt : PythonExtensions])

FindLinterPathCall ==
    /\ call.fn = "findLinterPath"
    /\ Return(findLinterPath(call.arg.env, call.arg.doc))

GetPythonPathCall ==
    /\ call.fn = "getPythonPath"
    /\ Return(getPythonPath(call.arg.cfg, call.arg.pythonExt))

NextResolver ==
    \/ FindLinterPathCall
    \/ GetPythonPathCall

SpecResolver == InitResolver /\ [][NextResolver]_vars

Reports(pythonExt) ==
    /\ pythonExt.present
    /\ pythonExt.isActive
    /\ pythonExt.exports = "object"
    /\ pythonExt.settings = "object"
    /\ pythonExt.getExecutionDetails = "function"
    /\ pythonExt.details = "object"
    /\ pythonExt.execCommand.kind = "array"
    /\ pythonExt.execCommand.items # <<>>

\* C17: getPythonPath never raises and always returns a command: the
\* configured interpreter (the setting, trimmed) when that is not empty;
\* otherwise the first token of the command list of the cooperating
\* extension when the extension is active and reports a non-empty list;
\* otherwise, also when the query throws or the API has another shape,
\* 'python3'.
InterpreterResolution ==
    (call.fn = "getPythonPath" /\ call.done) =>
        LET configured == trim(call.arg.cfg.pythonPath)
            ext        == call.arg.pythonExt
            r          == call.result
        IN  /\ ~r.raised
            /\ r.value # <<>>
            /\ configured # <<>> => r.value = configured
            /\ (configured = <<>> /\ Reports(ext)) =>
                   r.value = ext.execCommand.items[1]
            /\ (configured = <<>> /\ ~Reports(ext)) => r.value = Python3

\* No interpreter is configured and the query of the active extension
\* threw: the default was returned.
InterpreterWitness ==
    /\ call.fn = "getPythonPath"
    /\ call.done
    /\ trim(call.arg.cfg.pythonPath) = <<>>
    /\ call.arg.pythonExt.present
    /\ call.arg.pythonExt.isActive
    /\ call.arg.pythonExt.exports = "object"
    /\ call.arg.pythonExt.settings = "object"
    /\ call.arg.pythonExt.getExecutionDetails = "throws"
    /\ call.result.value = Python3

\* The most rule toggles the settings hold.
MaxToggles == 2

\* The codes the settings may hold a toggle for: those of the registry and
\* one outside it.
SettingCodes == { ALL_RULE_CODES[i] : i \in DOMAIN ALL_RULE_CODES } \cup {"X999"}

\* The per-rule boolean maps with at most MaxToggles entries.
RuleSettings ==
    UNION { [S -> BOOLEAN] :
              S \in { T \in SUBSET SettingCodes : Cardinality(T) <= MaxToggles } }

InitMapper ==
    /\ InitIn(NoScope)
    /\ call \in Calls("execFileArgs",
                      [cfg : {[DefaultConfig EXCEPT !.rules = m] :
                                  m \in RuleSettings},
                       linterPath : {"/storage/tangolint.py"},
                       filePath : {"/ws/a.py"}])

ExecFileArgsCall ==
    /\ call.fn = "execFileArgs"
    /\ Return(execFileArgs(call.arg.cfg, call.arg.linterPath,
                           call.arg.filePath))

SpecMapper == InitMapper /\ [][ExecFileArgsCall]_vars

\* The positions in the registry of the codes whose toggle is false.
DisabledPositions(rules) ==
    { i \in DOMAIN ALL_RULE_CODES :
        /\ ALL_RULE_CODES[i] \in DOMAIN rules
        /\ rules[ALL_RULE_CODES[i]] = FALSE }

\* C18: for every per-rule boolean map, the arguments of the analyzer are
\* the entry-point, '--no-color', one pair ('--disable', code) for each
\* registry code whose toggle is false, in registry order, and the file path
\* last; enabled codes, codes without a toggle and codes outside the
\* registry add nothing.
SuppressionArguments ==
    (call.fn = "execFileArgs" /\ call.done) =>
        LET args == call.result
            off  == DisabledPositions(call.arg.cfg.rules)
            n    == Cardinality(off)
        IN  /\ Len(args) = 3 + 2 * n
            /\ args[1] = call.arg.linterPath
            /\ args[2] = "--no-color"
            /\ args[Len(args)] = call.arg.filePath
            /\ \A i \in off :
                   LET j == Cardinality({ k \in off : k <= i })
                   IN  /\ args[2 + 2 * j - 1] = "--disable"
                       /\ args[2 + 2 * j] = ALL_RULE_CODES[i]

\* G001 and T023 are switched off: T023 comes first, as in the registry.
SuppressionWitness ==
    /\ call.fn = "execFileArgs"
    /\ call.done
    /\ DOMAIN call.arg.cfg.rules = {"G001", "T023"}
    /\ call.result = <<"/storage/tangolint.py", "--no-color",
                       "--disable", "T023", "--disable", "G001", "/ws/a.py">>

(***************************************************************************)
(* The parser applied to reports                                           *)
(***************************************************************************)

\* The fields of a report line, as the analyzer may write them (and as it
\* should not: a severity and codes outside the grammar, an empty message).
PathFields == { <<"f", ".", "p", "y">>,
                <<"C", ":", "/", "f">> }

LineFields == { <<"0">>,
                <<"1">>,
                <<"1", "0">>,
                <<"0", "7">> }

ColumnFields == { <<"0">>,
                  <<"4">> }

SeverityFields == SeverityWords \cup { <<"f", "a", "t", "a", "l">> }

CodeFields == { <<"T", "0", "2", "3">>,
                <<"G", "1">>,
                <<"t", "1">>,
                <<"T">> }

MessageFields ==
    { <<"x">>,
      <<"a", ":", " ", "b">>,
      <<"x", ":", "3", ":", "4", ":", " ", "e", "r", "r", "o", "r", ":", " ", "G", "2", " ", "y">>,
      <<>> }

ReportFields ==
    [path : PathFields, lineStr : LineFields, colStr : ColumnFields,
     severity : SeverityFields, code : CodeFields, message : MessageFields]

\* The report line of the fields f:
\*   <path>:<line>:<col>: <severity>: <code> <message>
Render(f) ==
    f.path \o <<":">> \o f.lineStr \o <<":">> \o f.colStr \o <<":", " ">>
        \o f.severity \o <<":", " ">> \o f.code \o <<" ">> \o f.message

\* How the analyzer's output stream ends a line: not at all (the last
\* line), with a line feed, or with carriage return and line feed.
LineEndings == { <<>>, <<"\n">>, <<"\r", "\n">> }

InfoLine == <<"f", ".", "p", "y", ":", "1", ":", "0", ":", " ", "i", "n", "f", "o", ":", " ", "T", "0", "0", "1", " ", "z">>

Summary == <<"2", " ", "i", "s", "s", "u", "e", "s", ":", " ", "1", " ", "e", "r", "r", "o", "r">>

\* The lines of the reports of several lines.
SampleLines == {WarningLine, ErrorLine, InfoLine, Banner, Summary, <<>>}

\* The most lines of a report of several lines.
MaxLines == 3

RECURSIVE JoinLines(_)
\* The report of the lines, each ended by a line feed.
JoinLines(lines) ==
    IF lines = <<>> THEN <<>>
    ELSE Head(lines) \o <<"\n">> \o JoinLines(Tail(lines))

\* The reports the parser is applied to: one line of any fields with any
\* ending, and up to MaxLines sample lines.
StdoutReports ==
    { Render(f) \o e : f \in ReportFields, e \in LineEndings }
    \cup { JoinLines(ls) : ls \in SeqsUpTo(SampleLines, MaxLines) }

InitParser ==
    /\ InitIn(NoScope)
    /\ call \in Calls("parseOutput", StdoutReports) \cup Calls("render", ReportFields)

ParseOutputCall ==
    /\ call.fn = "parseOutput"
    /\ Return(parseOutput(call.arg))

\* The analyzer writes the line of the fields and the parser reads it.
RenderAndParseCall ==
    /\ call.fn = "render"
    /\ Return(parseOutput(Render(call.arg) \o <<"\n">>))

NextParser ==
    \/ ParseOutputCall
    \/ RenderAndParseCall

SpecParser == InitParser /\ [][NextParser]_vars

\* The line s reads <path>:<line>:<col>: <severity>: <code> <message> with
\* the path ending at position i: line and column are runs of digits, the
\* severity is one of the three words, the code an uppercase letter and
\* digits, the message not empty.
GrammarAt(s, i) ==
    /\ At(s, i + 1) = ":"
    /\ \E a \in 1..Len(s) :
          LET c0 == i + 1 + a + 1
          IN  /\ \A k \in (i + 2)..(i + 1 + a) : IsDigit(At(s, k))
              /\ At(s, c0) = ":"
              /\ \E b \in 1..Len(s) :
                    LET v0 == c0 + b + 2
                    IN  /\ \A k \in (c0 + 1)..(c0 + b) : IsDigit(At(s, k))
                        /\ At(s, c0 + b + 1) = ":"
                        /\ At(s, v0) = " "
                        /\ \E w \in SeverityWords :
                              LET k0 == v0 + Len(w) + 3
                              IN  /\ StartsWithAt(s, v0 + 1, w)
                                  /\ At(s, v0 + Len(w) + 1) = ":"
                                  /\ At(s, v0 + Len(w) + 2) = " "
                                  /\ IsUpper(At(s, k0))
                                  /\ \E n \in 1..Len(s) :
                                        /\ \A k \in (k0 + 1)..(k0 + n) :
                                               IsDigit(At(s, k))
                                        /\ At(s, k0 + n + 1) = " "
                                        /\ k0 + n + 2 <= Len(s)

\* The line matches the grammar.
Grammar(s) == \E i \in 0..Len(s) : GrammarAt(s, i)

\* C19: parseOutput returns one diagnostic for each line of the report that
\* matches the grammar, in the order of the lines, and none for the other
\* lines: as many diagnostics as matching lines, the j-th of them the one of
\* the j-th matching line.
OneDiagnosticPerMatchingLine ==
    (call.fn = "parseOutput" /\ call.done) =>
        LET lines    == split(call.arg, "\n")
            matching == { k \in 1..Len(lines) : Grammar(lines[k]) }
        IN  /\ Len(call.result) = Cardinality(matching)
            /\ \A k \in matching :
                   LET j == Cardinality({ x \in matching : x <= k })
                   IN  <<call.result[j]>> = parseOutput(lines[k])

\* The inverse of toVSCodeSeverity on the words of the grammar.
SeverityWord(severity) ==
    CASE severity = "Error" -> <<"e", "r", "r", "o", "r">>
      [] severity = "Warning" -> <<"w", "a", "r", "n", "i", "n", "g">>
      [] OTHER -> <<"i", "n", "f", "o">>

\* The fields are those of a line of the grammar.
ValidFields(f) ==
    /\ f.severity \in SeverityWords
    /\ IsUpper(At(f.code, 1))
    /\ Len(f.code) >= 2
    /\ \A k \in 2..Len(f.code) : IsDigit(f.code[k])
    /\ f.message # <<>>

\* C20: for every line of the grammar, the one diagnostic parsed from it
\* gives back the fields of the line: its line number plus one is the line
\* of the report, its column the column, the word of its severity the
\* severity, its code the code, and its message without the code and ': '
\* the message.
ParseRoundTrip ==
    (call.fn = "render" /\ call.done /\ ValidFields(call.arg)) =>
        /\ Len(call.result) = 1
        /\ LET d == call.result[1]
               f == call.arg
           IN  /\ d.range[1] + 1 = parseInt(f.lineStr)
               /\ d.range[2] = parseInt(f.colStr)
               /\ SeverityWord(d.severity) = f.severity
               /\ d.code = f.code
               /\ SubSeq(d.message, 1, Len(d.code) + 2) = d.code \o <<":", " ">>
               /\ SubSeq(d.message, Len(d.code) + 3, Len(d.message)) = f.message

\* C21: lintDocument is called by the open handler and by the startup
\* replay exactly when lintOnOpen is enabled at the time of the event, by the
\* save handler exactly when lintOnSave is; the change handler touches the
\* timers only when lintOnChange is enabled, so never under the default
\* configuration; the manual command calls lintDocument whatever the toggles
\* are and launches a run when the active document is eligible and the
\* entry-point resolves.
TriggerToggles ==
    [][/\ lastEvent'.kind = "open" =>
             /\ (lastEvent'.lints # {}) = config.lintOnOpen
             /\ ~config.lintOnOpen => running' = running
       /\ lastEvent'.kind = "activate" =>
             /\ (lastEvent'.lints # {}) = (config.lintOnOpen /\ openDocs # {})
             /\ ~config.lintOnOpen => running' = running
       /\ lastEvent'.kind = "save" =>
             /\ (lastEvent'.lints # {}) = config.lintOnSave
             /\ ~config.lintOnSave => running' = running
       /\ lastEvent'.kind = "change" =>
             /\ ~config.lintOnChange =>
                    (timers' = timers /\ debounceTimers' = debounceTimers)
             /\ (config.lintOnChange /\ Eligible(lastEvent'.doc)) =>
                    \E t \in timers' : /\ t.doc = lastEvent'.doc
                                       /\ t.remaining = DebounceMs
             /\ config = DefaultConfig =>
                    (timers' = timers /\ debounceTimers' = debounceTimers)
       /\ lastEvent'.kind = "manual" =>
             /\ lastEvent'.lints # {}
             /\ (Eligible(activeEditor) /\ findLinterPath(Env, activeEditor) # NoPath)
                    => (Dispatched(lastEvent')
                        /\ running'[activeEditor] = running[activeEditor] + 1)]_vars

\* With every toggle switched off the manual command launched a run.
TriggerTogglesWitness ==
    /\ lastEvent.kind = "manual"
    /\ Dispatched(lastEvent)
    /\ ~config.lintOnOpen
    /\ ~config.lintOnSave
    /\ ~config.lintOnChange

\* The events of the handlers and callbacks that activate() registers or
\* that stem from a run or a timer.
HandlerEvents ==
    {"open", "save", "change", "close", "editor", "manual", "timer", "exit"}

\* C22: when deployScripts fails in activate(), one error message is shown
\* and nothing else is set up: no diagnostic collection and no status bar item
\* is created, no handler or command ever runs, no run is launched and no
\* timer scheduled; a later deactivate() raises nothing and leaves it so.
DeployFailureInitializesNothing ==
    errorMessages > 0 =>
        /\ errorMessages = 1
        /\ phase \in {"failed", "deactivated"}
        /\ deployedLinterPath = NoPath
        /\ diagnosticCollection = NoCollection
        /\ statusBarItem = NoStatusBarItem
        /\ debounceTimers = <<>>
        /\ timers = {}
        /\ TotalRunning(running) = 0
        /\ lastEvent.kind \notin HandlerEvents
        /\ lastEvent.lints = {}
        /\ ~lastEvent.raised

\* The deployment failed with documents open and lintOnOpen enabled, and
\* the pipeline was deactivated afterwards.
DeployFailureWitness ==
    /\ errorMessages = 1
    /\ phase = "deactivated"
    /\ lastEvent.kind = "deactivate"
    /\ config.lintOnOpen
    /\ "a.py" \in openDocs

\* The events that request a run of their document.
RunRequests == {"open", "save", "manual", "timer"}

\* The run that ended in the event e ended without failure.
Succeeded(e) == e.kind = "exit" /\ Blank(Outcomes[e.outcome].stderr)

\* C23: a run of a document is launched whether or not runs of it are in
\* flight, and every run that completes without failure (while the collection
\* is live) leaves in the store exactly its own diagnostics for the
\* document, whatever was there and whatever runs are still in flight: when
\* all have completed, the store holds those of the callback that ran last.
LastCompletionWins ==
    [][/\ \A d \in Docs :
            (/\ lastEvent'.kind \in RunRequests
             /\ lastEvent'.doc = d
             /\ lastEvent'.lints # {}
             /\ Eligible(d)
             /\ findLinterPath(Env, d) # NoPath)
            => (/\ Dispatched(lastEvent')
                /\ running'[d] = running[d] + 1)
       /\ (Succeeded(lastEvent') /\ ~diagnosticCollection.disposed) =>
             /\ lastEvent'.doc \in DOMAIN Entries'
             /\ Entries'[lastEvent'.doc] = ExpectedDiagnostics(lastEvent'.outcome)
             /\ running'[lastEvent'.doc] = running[lastEvent'.doc] - 1]_vars

\* The last of the overlapping runs of a document completed and replaced
\* the diagnostics that an earlier completion had stored.
LastCompletionWitness ==
    /\ lastEvent.kind = "exit"
    /\ lastEvent.outcome = 3
    /\ lastEvent.stored
    /\ running[lastEvent.doc] = 0
    /\ lastEvent.doc \in openDocs
    /\ lastEvent.doc \in DOMAIN Entries
    /\ Entries[lastEvent.doc] = <<WarningDiagnostic>>

\* C24: a run in flight is never cancelled: only its own completion takes
\* it from the runs in flight, one at a time; change events, further runs,
\* closing the document and every other event leave it in flight; and its
\* completion is applied also after the document was closed: the
\* diagnostics are replaced when it ended without failure, the error status
\* is set when it failed.
RunsAreNeverCancelled ==
    [][/\ \A d \in Docs :
            IF lastEvent'.kind = "exit" /\ lastEvent'.doc = d
            THEN running'[d] = running[d] - 1
            ELSE running'[d] >= running[d]
       /\ lastEvent'.kind \in {"change", "close"} => running' = running
       /\ (Succeeded(lastEvent') /\ ~diagnosticCollection.disposed) =>
             /\ lastEvent'.doc \in DOMAIN Entries'
             /\ Entries'[lastEvent'.doc] = ExpectedDiagnostics(lastEvent'.outcome)
       /\ (lastEvent'.kind = "exit" /\ ~Succeeded(lastEvent')) =>
             statusBarItem'.icon = "$(alert)"]_vars

\* The run of a document completed after the document was closed.
NeverCancelledWitness ==
    /\ lastEvent.kind = "exit"
    /\ lastEvent.doc \notin openDocs
    /\ phase = "active"
    /\ lastEvent.doc \in DOMAIN Entries

\* The debounce timer of d: its entry in the table and the host's timer.
TimerOf(d) ==
    <<IF d \in DOMAIN debounceTimers THEN {debounceTimers[d]} ELSE {},
      TimersOf(d)>>

\* C25: an event of a document (a trigger, the firing of its timer, the
\* completion of a run of it, its close) leaves the diagnostics and the
\* debounce timer of every other document as they were; a completion without
\* failure replaces the document's diagnostics by exactly those parsed from
\* the run's stdout.
DocumentsAreIndependent ==
    [][/\ \A a \in Docs :
            (/\ lastEvent'.kind \in RunRequests \cup {"change", "close", "exit"}
             /\ lastEvent'.doc = a)
            => \A b \in Docs \ {a} : SameEntry(b) /\ TimerOf(b)' = TimerOf(b)
       /\ (Succeeded(lastEvent') /\ ~diagnosticCollection.disposed) =>
             Entries'[lastEvent'.doc] =
                 parseOutputTable[Outcomes[lastEvent'.outcome].stdout]]_vars

\* A run of a document that had diagnostics completed with other
\* diagnostics, while the other document has diagnostics and a pending
\* timer.
IndependenceWitness ==
    /\ lastEvent.kind = "exit"
    /\ lastEvent.stored
    /\ lastEvent.outcome = 3
    /\ Entries[lastEvent.doc] = <<WarningDiagnostic>>
    /\ \E b \in DOMAIN Entries :
          /\ b # lastEvent.doc
          /\ Entries[b] = <<ErrorDiagnostic, WarningDiagnostic>>
          /\ TimersOf(b) # {}

\* The places at which the line can be read as a line of the grammar.
Readings(s) == { i \in 0..Len(s) : GrammarAt(s, i) }

\* The number a run of digits stands for.
RECURSIVE Number(_)
Number(ds) ==
    IF ds = <<>> THEN 0
    ELSE 10 * Number(SubSeq(ds, 1, Len(ds) - 1))
             + (CHOOSE n \in 0..9 : Digits[n + 1] = ds[Len(ds)])

TimerTableMatchesTimers ==
    /\ \A d \in Docs :
          /\ Cardinality(TimersOf(d)) <= 1
          /\ (d \in DOMAIN debounceTimers) = (TimersOf(d) # {})
          /\ \A t \in TimersOf(d) : debounceTimers[d] = t.id
    /\ \A t1 \in timers : \A t2 \in timers : t1.id = t2.id => t1 = t2
    /\ lastEvent.kind = "timer" =>
          /\ lastEvent.doc \notin DOMAIN debounceTimers
          /\ TimersOf(lastEvent.doc) = {}

\* The timer of a document fired while the other document has a pending
\* timer.
TimerTableWitness ==
    /\ lastEvent.kind = "timer"
    /\ Dispatched(lastEvent)
    /\ \E d \in DOMAIN debounceTimers : d # lastEvent.doc /\ TimersOf(d) # {}

\* C28: while the pipeline is active and the status is running, a run is
\* in flight; and the status leaves running only in the step of a run's
\* completion, never by a close, by the passing of time or by any other event.
RunningMeansInFlight ==
    [][/\ (phase' = "active" /\ statusBarItem'.icon = "$(sync~spin)")
             => TotalRunning(running') > 0
       /\ (statusBarItem.icon = "$(sync~spin)"
             /\ statusBarItem'.icon # "$(sync~spin)")
             => lastEvent'.kind = "exit"]_vars

\* The document was closed while its run was in flight and the status
\* still shows running.
RunningWitness ==
    /\ lastEvent.kind = "close"
    /\ running[lastEvent.doc] > 0
    /\ TotalRunning(running) = running[lastEvent.doc]
    /\ statusBarItem.icon = "$(sync~spin)"

====
